---- MODULE Spec2Model ----
(***************************************************************************)
(* Model of the trivia session server (server.ts): the session state, the  *)
(* phase timer, the scoring engine and the socket command handlers.        *)
(*                                                                         *)
(* Every handler runs to completion on the single Node event loop, so one  *)
(* action models one whole handler (or one whole setInterval callback).    *)
(* Sequential code is written as operators over a machine record m that    *)
(* holds the program's variables plus the events emitted so far by the     *)
(* handler that is running.                                                *)
(***************************************************************************)
EXTENDS Integers, Sequences, FiniteSets, TLC

\* ---------------------------------------------------------------- bounds
\* number of socket connections that may exist (socket ids 1..NumConns)
NumConns == 2
\* largest value of the wall clock read by Date.now()
MaxClock == 1
\* number of incorrect options a client may send besides the correct one
WrongChoices == 1
\* clients only submit answers to the first AnsweredQuestions questions
AnsweredQuestions == 1
\* number of participants in the scoring-pass specification
NumScorePlayers == 6
\* largest submission timestamp in the scoring-pass specification
MaxScoreTime == 2

\* ------------------------------------------------------- program constants
\* correctAnswer of each entry of QUESTIONS, in bank order
QUESTIONS == <<0, 0, 1, 2, 3>>
\* every question has four options
NumOptions == 4
ReadingDuration == 5
AnsweringDuration == 15
RevealDuration == 5
\* slots of the 20-point tier
TierSlots == 5
\* the countdown value at or below which a changed answer earns 5 points
LastSeconds == 3

\* null of currentAnswer / answerTime, and of timerInterval
Null == -1
NoTimer == [id |-> Null, cb |-> "none"]

Conns == 1..NumConns

VARIABLES
  gameState,           \* [state, currentQuestionIndex, players, timer]
  playerFirstAnswers,  \* socket id -> first submitted answer (defined keys only)
  timerInterval,       \* the handle stored in timerInterval (possibly stale)
  intervals,           \* the intervals Node still has scheduled
  clock,               \* last value returned by Date.now()
  broadcasts,          \* gameUpdate snapshots emitted by the last handler
  feedback,            \* answerFeedback events emitted by the last handler
  scoring,             \* calculateScores invocations made by the last handler
  cancelled,           \* scheduled intervals the last handler's startTimer cleared
  last,                \* name of the handler that ran last
  submittedEarly,      \* ids whose latest submission saw a countdown above 3
  prevPhase,           \* gameState.state when the last handler started
  lobbySinceEndReset   \* in LOBBY since a reset made in LEADERBOARD or FINAL_RESULTS

vars == <<gameState, playerFirstAnswers, timerInterval, intervals, clock,
          broadcasts, feedback, scoring, cancelled, last, submittedEarly,
          prevPhase, lobbySinceEndReset>>

\* the program's own state, without the record of what the last handler did
progVars == <<gameState, playerFirstAnswers, timerInterval, intervals>>

\* ------------------------------------------------------------- helpers
\* position of socket id c in the players object, 0 when absent
PlayerIndex(players, c) ==
  IF \E i \in DOMAIN players : players[i].id = c
  THEN CHOOSE i \in DOMAIN players : players[i].id = c
  ELSE 0

HasPlayer(players, c) == PlayerIndex(players, c) # 0

\* player?.isHost
IsHostConn(players, c) ==
  HasPlayer(players, c) /\ players[PlayerIndex(players, c)].isHost

\* the Player record written by the join handler
NewPlayer(c, isHost) ==
  [id |-> c, score |-> 0, lastScoreChange |-> 0, currentAnswer |-> Null,
   hasChangedAnswer |-> FALSE, answerTime |-> Null, isHost |-> isHost]

\* the running handler starts with nothing emitted
Machine ==
  [gameState |-> gameState, playerFirstAnswers |-> playerFirstAnswers,
   timerInterval |-> timerInterval, intervals |-> intervals,
   broadcasts |-> <<>>, feedback |-> <<>>, scoring |-> <<>>,
   cancelled |-> <<>>]

\* ---------------------------------------------------------- broadcastUpdate
broadcastUpdate(m) == [m EXCEPT !.broadcasts = Append(@, m.gameState)]

\* ---------------------------------------------------------------- startTimer
\* setInterval returns a handle distinct from every interval still scheduled
FreshId(m) ==
  CHOOSE n \in 0..Cardinality(m.intervals) :
    /\ \A h \in m.intervals : h.id # n
    /\ \A k \in 0..(n - 1) : \E h \in m.intervals : h.id = k

\* if (timerInterval) clearInterval(timerInterval)
clearInterval(m) ==
  IF m.timerInterval # NoTimer
  THEN [m EXCEPT !.intervals = @ \ {m.timerInterval}]
  ELSE m

\* startTimer as it would be without line 69: the old interval keeps running
startTimerNoClear(m, duration, onComplete) ==
  LET m2 == [m EXCEPT !.gameState.timer = duration]
      m3 == broadcastUpdate(m2)
      h  == [id |-> FreshId(m3), cb |-> onComplete]
  IN [m3 EXCEPT !.intervals = @ \cup {h}, !.timerInterval = h]

startTimer(m, duration, onComplete) ==
  LET m1 == [clearInterval(m) EXCEPT
                 !.cancelled = IF m.timerInterval \in m.intervals
                               THEN Append(@, m.timerInterval) ELSE @]
      m2 == [m1 EXCEPT !.gameState.timer = duration]
      m3 == broadcastUpdate(m2)
      h  == [id |-> FreshId(m3), cb |-> onComplete]
  IN [m3 EXCEPT !.intervals = @ \cup {h}, !.timerInterval = h]

\* ----------------------------------------------------------- calculateScores
\* (a.answerTime || Infinity) - (b.answerTime || Infinity), as a sign;
\* Infinity - Infinity is NaN, which sort treats as 0
HasTime(p) == p.answerTime # Null /\ p.answerTime # 0

Compare(a, b) ==
  CASE HasTime(a) /\ HasTime(b) ->
         IF a.answerTime < b.answerTime THEN -1
         ELSE IF a.answerTime > b.answerTime THEN 1 ELSE 0
    [] HasTime(a) /\ ~HasTime(b) -> -1
    [] ~HasTime(a) /\ HasTime(b) -> 1
    [] OTHER -> 0

\* Array.prototype.sort is stable: x goes after every element not above it
RECURSIVE InsertSorted(_, _)
InsertSorted(sorted, x) ==
  IF sorted = <<>> THEN <<x>>
  ELSE IF Compare(sorted[Len(sorted)], x) <= 0 THEN Append(sorted, x)
  ELSE Append(InsertSorted(SubSeq(sorted, 1, Len(sorted) - 1), x),
              sorted[Len(sorted)])

\* the list as it would be without the .sort call
SortKeepsInsertionOrder(s) == s

RECURSIVE SortByAnswerTime(_)
SortByAnswerTime(s) ==
  IF s = <<>> THEN <<>>
  ELSE InsertSorted(SortByAnswerTime(SubSeq(s, 1, Len(s) - 1)), s[Len(s)])

\* the scoring list as it would be without the isHost filter
NonHostsKeepsHosts(players) == players

\* Object.values(gameState.players).filter(p => !p.isHost)
NonHosts(players) == SelectSeq(players, LAMBDA p : ~p.isHost)

\* the award as it would be if correctness were judged on the first answer
AwardByFirstAnswer(player, correctAnswer, firstAnswers, timer, correctCount) ==
  LET wasFirstCorrect ==
        /\ player.id \in DOMAIN firstAnswers
        /\ firstAnswers[player.id] = correctAnswer
  IN IF wasFirstCorrect
     THEN [id |-> player.id, correct |-> TRUE, points |-> 10,
           reason |-> "correct", count |-> correctCount]
     ELSE [id |-> player.id, correct |-> FALSE, points |-> 0,
           reason |-> "incorrect", count |-> correctCount]

\* the body of players.forEach for one player: the award and the new count
Award(player, correctAnswer, firstAnswers, timer, correctCount) ==
  LET isCorrect == player.currentAnswer = correctAnswer
      wasFirstCorrect ==
        /\ player.id \in DOMAIN firstAnswers
        /\ firstAnswers[player.id] = correctAnswer
  IN IF isCorrect
     THEN IF ~player.hasChangedAnswer /\ wasFirstCorrect
          THEN IF correctCount < TierSlots
               THEN [id |-> player.id, correct |-> TRUE, points |-> 20,
                     reason |-> "first5_unchanged", count |-> correctCount + 1]
               ELSE [id |-> player.id, correct |-> TRUE, points |-> 10,
                     reason |-> "unchanged", count |-> correctCount + 1]
          ELSE IF player.hasChangedAnswer
          THEN IF timer <= LastSeconds
               THEN [id |-> player.id, correct |-> TRUE, points |-> 5,
                     reason |-> "changed_last3", count |-> correctCount]
               ELSE [id |-> player.id, correct |-> TRUE, points |-> 10,
                     reason |-> "changed", count |-> correctCount]
          ELSE [id |-> player.id, correct |-> TRUE, points |-> 10,
                reason |-> "correct", count |-> correctCount]
     ELSE [id |-> player.id, correct |-> FALSE, points |-> 0,
           reason |-> "incorrect", count |-> correctCount]

\* players.forEach over the sorted list, correctCount starting at 0
RECURSIVE Awards(_, _, _, _)
Awards(sorted, correctAnswer, firstAnswers, timer) ==
  IF sorted = <<>> THEN <<>>
  ELSE LET before == Awards(SubSeq(sorted, 1, Len(sorted) - 1),
                            correctAnswer, firstAnswers, timer)
           count  == IF before = <<>> THEN 0 ELSE before[Len(before)].count
       IN Append(before, Award(sorted[Len(sorted)], correctAnswer,
                               firstAnswers, timer, count))

AwardOf(awards, c) ==
  awards[CHOOSE i \in DOMAIN awards : awards[i].id = c]

\* the pass as it would be with io.emit in place of io.to(player.id).emit:
\* every award is announced to every player
calculateScoresEmitsToAll(m) ==
  LET gs == m.gameState
      correctAnswer == QUESTIONS[gs.currentQuestionIndex + 1]
      sorted == SortByAnswerTime(NonHosts(gs.players))
      awards == Awards(sorted, correctAnswer, m.playerFirstAnswers, gs.timer)
      scored == [i \in DOMAIN gs.players |->
                   IF gs.players[i].isHost THEN gs.players[i]
                   ELSE [gs.players[i] EXCEPT
                           !.lastScoreChange = AwardOf(awards, gs.players[i].id).points,
                           !.score = @ + AwardOf(awards, gs.players[i].id).points]]
      events == [n \in 1..(Len(awards) * Len(gs.players)) |->
                   LET a == awards[((n - 1) \div Len(gs.players)) + 1]
                       p == gs.players[((n - 1) % Len(gs.players)) + 1]
                   IN [to |-> p.id, correct |-> a.correct,
                       points |-> a.points, reason |-> a.reason]]
  IN [m EXCEPT !.gameState.players = scored,
               !.feedback = @ \o events,
               !.scoring = Append(@, [question |-> gs.currentQuestionIndex,
                                      state |-> gs.state, timer |-> gs.timer])]

\* the pass as it would be with `player.score = points` in place of `+=`
calculateScoresOverwrites(m) ==
  LET gs == m.gameState
      correctAnswer == QUESTIONS[gs.currentQuestionIndex + 1]
      sorted == SortByAnswerTime(NonHosts(gs.players))
      awards == Awards(sorted, correctAnswer, m.playerFirstAnswers, gs.timer)
      scored == [i \in DOMAIN gs.players |->
                   IF gs.players[i].isHost THEN gs.players[i]
                   ELSE [gs.players[i] EXCEPT
                           !.lastScoreChange = AwardOf(awards, gs.players[i].id).points,
                           !.score = AwardOf(awards, gs.players[i].id).points]]
      events == [i \in DOMAIN awards |->
                   [to |-> awards[i].id, correct |-> awards[i].correct,
                    points |-> awards[i].points, reason |-> awards[i].reason]]
  IN [m EXCEPT !.gameState.players = scored,
               !.feedback = @ \o events,
               !.scoring = Append(@, [question |-> gs.currentQuestionIndex,
                                      state |-> gs.state, timer |-> gs.timer])]

calculateScores(m) ==
  LET gs == m.gameState
      correctAnswer == QUESTIONS[gs.currentQuestionIndex + 1]
      sorted == SortByAnswerTime(NonHosts(gs.players))
      awards == Awards(sorted, correctAnswer, m.playerFirstAnswers, gs.timer)
      scored == [i \in DOMAIN gs.players |->
                   IF gs.players[i].isHost THEN gs.players[i]
                   ELSE [gs.players[i] EXCEPT
                           !.lastScoreChange = AwardOf(awards, gs.players[i].id).points,
                           !.score = @ + AwardOf(awards, gs.players[i].id).points]]
      events == [i \in DOMAIN awards |->
                   [to |-> awards[i].id, correct |-> awards[i].correct,
                    points |-> awards[i].points, reason |-> awards[i].reason]]
  IN [m EXCEPT !.gameState.players = scored,
               !.feedback = @ \o events,
               !.scoring = Append(@, [question |-> gs.currentQuestionIndex,
                                      state |-> gs.state, timer |-> gs.timer])]

\* --------------------------------------------------------- startReadingPhase
\* the callbacks as they would be without the broadcastUpdate() of line 239
onCompleteOneRevealBroadcast(m, cb) ==
  CASE cb = "toQuestion" ->
         startTimer([m EXCEPT !.gameState.state = "QUESTION"],
                    AnsweringDuration, "toReveal")
    [] cb = "toReveal" ->
         LET m1 == calculateScores(m)
             m2 == [m1 EXCEPT !.gameState.state = "REVEAL"]
         IN startTimer(m2, RevealDuration, "toLeaderboard")
    [] cb = "toLeaderboard" ->
         broadcastUpdate([m EXCEPT !.gameState.state = "LEADERBOARD"])

\* the three nested completion callbacks of startReadingPhase
\* the callbacks as they would be if the answering countdown were started
\* with the reveal duration
onCompleteShortAnswering(m, cb) ==
  CASE cb = "toQuestion" ->
         startTimer([m EXCEPT !.gameState.state = "QUESTION"],
                    RevealDuration, "toReveal")
    [] cb = "toReveal" ->
         LET m1 == calculateScores(m)
             m2 == [m1 EXCEPT !.gameState.state = "REVEAL"]
             m3 == broadcastUpdate(m2)
         IN startTimer(m3, RevealDuration, "toLeaderboard")
    [] cb = "toLeaderboard" ->
         broadcastUpdate([m EXCEPT !.gameState.state = "LEADERBOARD"])

onComplete(m, cb) ==
  CASE cb = "toQuestion" ->
         startTimer([m EXCEPT !.gameState.state = "QUESTION"],
                    AnsweringDuration, "toReveal")
    [] cb = "toReveal" ->
         LET m1 == calculateScores(m)
             m2 == [m1 EXCEPT !.gameState.state = "REVEAL"]
             m3 == broadcastUpdate(m2)
         IN startTimer(m3, RevealDuration, "toLeaderboard")
    [] cb = "toLeaderboard" ->
         broadcastUpdate([m EXCEPT !.gameState.state = "LEADERBOARD"])

\* startReadingPhase as it would be without the loop of line 232
startReadingPhaseKeepsFirstAnswers(m) ==
  LET cleared == [i \in DOMAIN m.gameState.players |->
                    [m.gameState.players[i] EXCEPT
                       !.currentAnswer = Null,
                       !.hasChangedAnswer = FALSE,
                       !.lastScoreChange = 0]]
      m1 == [m EXCEPT !.gameState.state = "READING",
                      !.gameState.players = cleared]
  IN startTimer(m1, ReadingDuration, "toQuestion")

startReadingPhase(m) ==
  LET cleared == [i \in DOMAIN m.gameState.players |->
                    [m.gameState.players[i] EXCEPT
                       !.currentAnswer = Null,
                       !.hasChangedAnswer = FALSE,
                       !.lastScoreChange = 0]]
      m1 == [m EXCEPT !.gameState.state = "READING",
                      !.gameState.players = cleared,
                      !.playerFirstAnswers = <<>>]
  IN startTimer(m1, ReadingDuration, "toQuestion")

\* the callback as it would be if it completed at 1 instead of 0
tickCompletesEarly(m, h) ==
  IF m.gameState.timer - 1 <= 1
  THEN onComplete(clearInterval(m), h.cb)
  ELSE broadcastUpdate([m EXCEPT !.gameState.timer = @ - 1])

\* the callback as it would be without the broadcastUpdate() of line 79
tickNoBroadcast(m, h) ==
  LET m1 == [m EXCEPT !.gameState.timer = @ - 1]
  IN IF m1.gameState.timer <= 0
     THEN onComplete(clearInterval(m1), h.cb)
     ELSE m1

\* the callback as it would be if it tested the countdown before decrementing
tickTestsBeforeDecrement(m, h) ==
  IF m.gameState.timer <= 1
  THEN onComplete(clearInterval(m), h.cb)
  ELSE broadcastUpdate([m EXCEPT !.gameState.timer = @ - 1])

\* the callback as it would be if the answering countdown waited, at its last
\* second, for every non-host participant to answer
tickWaitsForAnswers(m, h) ==
  LET m1 == [m EXCEPT !.gameState.timer = @ - 1]
      waiting == \E i \in DOMAIN m.gameState.players :
                   /\ ~m.gameState.players[i].isHost
                   /\ m.gameState.players[i].currentAnswer = Null
  IN IF m1.gameState.timer <= 0
     THEN IF h.cb = "toReveal" /\ waiting
          THEN broadcastUpdate(m)
          ELSE onComplete(clearInterval(m1), h.cb)
     ELSE broadcastUpdate(m1)

\* the setInterval callback of handle h
tick(m, h) ==
  LET m1 == [m EXCEPT !.gameState.timer = @ - 1]
  IN IF m1.gameState.timer <= 0
     THEN onComplete(clearInterval(m1), h.cb)
     ELSE broadcastUpdate(m1)

\* ------------------------------------------------------------ socket handlers
\* the handler as it would be if every join added a record
joinAlwaysAppends(m, c, isHost) ==
  broadcastUpdate([m EXCEPT !.gameState.players = Append(@, NewPlayer(c, isHost))])

\* gameState.players[socket.id] = {...}: an existing key keeps its position
join(m, c, isHost) ==
  LET players == m.gameState.players
      i == PlayerIndex(players, c)
      players2 == IF i = 0 THEN Append(players, NewPlayer(c, isHost))
                  ELSE [players EXCEPT ![i] = NewPlayer(c, isHost)]
  IN broadcastUpdate([m EXCEPT !.gameState.players = players2])

\* the handler as it would be if it only required a Participant record
submitAnswerAnyPhase(m, c, answerIndex, now) ==
  LET players == m.gameState.players
      i == PlayerIndex(players, c)
  IN IF i = 0 THEN m
     ELSE LET first == IF c \in DOMAIN m.playerFirstAnswers
                       THEN m.playerFirstAnswers
                       ELSE [k \in DOMAIN m.playerFirstAnswers \cup {c} |->
                               IF k = c THEN answerIndex
                               ELSE m.playerFirstAnswers[k]]
              changed == IF c \in DOMAIN m.playerFirstAnswers THEN TRUE
                         ELSE players[i].hasChangedAnswer
          IN broadcastUpdate(
               [m EXCEPT !.playerFirstAnswers = first,
                         !.gameState.players[i].hasChangedAnswer = changed,
                         !.gameState.players[i].currentAnswer = answerIndex,
                         !.gameState.players[i].answerTime = now])

\* the handler as it would be without `player.hasChangedAnswer = true`
submitAnswerNeverFlags(m, c, answerIndex, now) ==
  LET players == m.gameState.players
      i == PlayerIndex(players, c)
  IN IF i = 0 \/ m.gameState.state # "QUESTION" THEN m
     ELSE LET first == IF c \in DOMAIN m.playerFirstAnswers
                       THEN m.playerFirstAnswers
                       ELSE [k \in DOMAIN m.playerFirstAnswers \cup {c} |->
                               IF k = c THEN answerIndex
                               ELSE m.playerFirstAnswers[k]]
          IN broadcastUpdate(
               [m EXCEPT !.playerFirstAnswers = first,
                         !.gameState.players[i].currentAnswer = answerIndex,
                         !.gameState.players[i].answerTime = now])

submitAnswer(m, c, answerIndex, now) ==
  LET players == m.gameState.players
      i == PlayerIndex(players, c)
  IN IF i = 0 \/ m.gameState.state # "QUESTION" THEN m
     ELSE LET first == IF c \in DOMAIN m.playerFirstAnswers
                       THEN m.playerFirstAnswers
                       ELSE [k \in DOMAIN m.playerFirstAnswers \cup {c} |->
                               IF k = c THEN answerIndex
                               ELSE m.playerFirstAnswers[k]]
              changed == IF c \in DOMAIN m.playerFirstAnswers THEN TRUE
                         ELSE players[i].hasChangedAnswer
          IN broadcastUpdate(
               [m EXCEPT !.playerFirstAnswers = first,
                         !.gameState.players[i].hasChangedAnswer = changed,
                         !.gameState.players[i].currentAnswer = answerIndex,
                         !.gameState.players[i].answerTime = now])

\* the handler as it would be if it entered READING without startReadingPhase
hostStartGameNoTimer(m, c) ==
  IF ~IsHostConn(m.gameState.players, c) THEN m
  ELSE LET zeroed == [i \in DOMAIN m.gameState.players |->
                        [m.gameState.players[i] EXCEPT
                           !.score = 0, !.lastScoreChange = 0]]
       IN broadcastUpdate([m EXCEPT !.gameState.currentQuestionIndex = 0,
                                    !.gameState.players = zeroed,
                                    !.gameState.state = "READING"])

hostStartGame(m, c) ==
  IF ~IsHostConn(m.gameState.players, c) THEN m
  ELSE LET zeroed == [i \in DOMAIN m.gameState.players |->
                        [m.gameState.players[i] EXCEPT
                           !.score = 0, !.lastScoreChange = 0]]
       IN startReadingPhase([m EXCEPT !.gameState.currentQuestionIndex = 0,
                                      !.gameState.players = zeroed])

\* the handler as it would be with the bound of line 192 off by one
hostNextQuestionEndsEarly(m, c) ==
  IF ~IsHostConn(m.gameState.players, c) THEN m
  ELSE IF m.gameState.currentQuestionIndex < Len(QUESTIONS) - 2
  THEN startReadingPhase([m EXCEPT !.gameState.currentQuestionIndex = @ + 1])
  ELSE broadcastUpdate([m EXCEPT !.gameState.state = "FINAL_RESULTS"])

\* the handler as it would be with `<= QUESTIONS.length - 1` as its test
hostNextQuestionPastEnd(m, c) ==
  IF ~IsHostConn(m.gameState.players, c) THEN m
  ELSE IF m.gameState.currentQuestionIndex <= Len(QUESTIONS) - 1
  THEN startReadingPhase([m EXCEPT !.gameState.currentQuestionIndex = @ + 1])
  ELSE broadcastUpdate([m EXCEPT !.gameState.state = "FINAL_RESULTS"])

hostNextQuestion(m, c) ==
  IF ~IsHostConn(m.gameState.players, c) THEN m
  ELSE IF m.gameState.currentQuestionIndex < Len(QUESTIONS) - 1
  THEN startReadingPhase([m EXCEPT !.gameState.currentQuestionIndex = @ + 1])
  ELSE broadcastUpdate([m EXCEPT !.gameState.state = "FINAL_RESULTS"])

\* the handler as it would be if it only required a Participant record
hostResetGameAnyPlayer(m, c) ==
  IF ~HasPlayer(m.gameState.players, c) THEN m
  ELSE LET reset == [i \in DOMAIN m.gameState.players |->
                       [m.gameState.players[i] EXCEPT
                          !.score = 0, !.lastScoreChange = 0,
                          !.currentAnswer = Null,
                          !.hasChangedAnswer = FALSE]]
       IN broadcastUpdate([m EXCEPT !.gameState.state = "LOBBY",
                                    !.gameState.currentQuestionIndex = 0,
                                    !.gameState.players = reset])

hostResetGame(m, c) ==
  IF ~IsHostConn(m.gameState.players, c) THEN m
  ELSE LET reset == [i \in DOMAIN m.gameState.players |->
                       [m.gameState.players[i] EXCEPT
                          !.score = 0, !.lastScoreChange = 0,
                          !.currentAnswer = Null,
                          !.hasChangedAnswer = FALSE]]
       IN broadcastUpdate([m EXCEPT !.gameState.state = "LOBBY",
                                    !.gameState.currentQuestionIndex = 0,
                                    !.gameState.players = reset])

\* the handler as it would be without `delete gameState.players[socket.id]`
disconnectKeepsRecord(m, c) ==
  LET first2 == [k \in DOMAIN m.playerFirstAnswers \ {c} |->
                   m.playerFirstAnswers[k]]
  IN broadcastUpdate([m EXCEPT !.playerFirstAnswers = first2])

disconnect(m, c) ==
  LET players2 == SelectSeq(m.gameState.players, LAMBDA p : p.id # c)
      first2 == [k \in DOMAIN m.playerFirstAnswers \ {c} |->
                   m.playerFirstAnswers[k]]
  IN broadcastUpdate([m EXCEPT !.gameState.players = players2,
                               !.playerFirstAnswers = first2])

\* ------------------------------------------------------------------ actions
\* the handler has returned: its result becomes the program state
Commit(m, op, c) ==
  /\ gameState' = m.gameState
  /\ playerFirstAnswers' = m.playerFirstAnswers
  /\ timerInterval' = m.timerInterval
  /\ intervals' = m.intervals
  /\ broadcasts' = m.broadcasts
  /\ feedback' = m.feedback
  /\ scoring' = m.scoring
  /\ cancelled' = m.cancelled
  /\ last' = op
  /\ prevPhase' = gameState.state
  /\ lobbySinceEndReset' =
       /\ m.gameState.state = "LOBBY"
       /\ IF op = "hostResetGame" /\ m.broadcasts # <<>>
          THEN \/ gameState.state \in {"LEADERBOARD", "FINAL_RESULTS"}
               \/ gameState.state = "LOBBY" /\ lobbySinceEndReset
          ELSE lobbySinceEndReset
  /\ submittedEarly' =
       IF m.gameState.state = "QUESTION" \/ m.scoring # <<>>
       THEN LET answered(k) ==
                  /\ HasPlayer(m.gameState.players, k)
                  /\ m.gameState.players[PlayerIndex(m.gameState.players, k)].currentAnswer # Null
                accepted ==
                  /\ op = "submitAnswer"
                  /\ m.broadcasts # <<>>
            IN {k \in Conns :
                  /\ answered(k)
                  /\ IF accepted /\ k = c
                     THEN gameState.timer > LastSeconds
                     ELSE k \in submittedEarly}
       ELSE {}

\* the options a client sends for the question on screen
AnswerInputs ==
  {(QUESTIONS[gameState.currentQuestionIndex + 1] + k) % NumOptions :
     k \in 0..WrongChoices}

Join(c) ==
  /\ \E isHost \in BOOLEAN : Commit(join(Machine, c, isHost), "join", c)
  /\ UNCHANGED clock

SubmitAnswer(c) ==
  /\ gameState.currentQuestionIndex < AnsweredQuestions
  /\ \E answerIndex \in AnswerInputs :
       \E now \in {clock, clock + 1} :
         /\ now <= MaxClock
         /\ clock' = now
         /\ Commit(submitAnswer(Machine, c, answerIndex, now), "submitAnswer", c)

HostStartGame(c) ==
  /\ Commit(hostStartGame(Machine, c), "hostStartGame", c)
  /\ UNCHANGED clock

HostNextQuestion(c) ==
  /\ Commit(hostNextQuestion(Machine, c), "hostNextQuestion", c)
  /\ UNCHANGED clock

HostResetGame(c) ==
  /\ Commit(hostResetGame(Machine, c), "hostResetGame", c)
  /\ UNCHANGED clock

\* a socket disconnects; a connection that never joined may disconnect too
Disconnect(c) ==
  /\ Commit(disconnect(Machine, c), "disconnect", c)
  /\ UNCHANGED clock

\* one firing of a scheduled interval
Tick ==
  /\ \E h \in intervals : Commit(tick(Machine, h), "tick", 0)
  /\ UNCHANGED clock

InitGameState ==
  [state |-> "LOBBY", currentQuestionIndex |-> 0, players |-> <<>>, timer |-> 0]

Init ==
  /\ gameState = InitGameState
  /\ playerFirstAnswers = <<>>
  /\ timerInterval = NoTimer
  /\ intervals = {}
  /\ clock = 1
  /\ broadcasts = <<>>
  /\ feedback = <<>>
  /\ scoring = <<>>
  /\ cancelled = <<>>
  /\ last = "init"
  /\ submittedEarly = {}
  /\ prevPhase = "LOBBY"
  /\ lobbySinceEndReset = FALSE

Next ==
  \/ \E c \in Conns : Join(c)
  \/ \E c \in Conns : SubmitAnswer(c)
  \/ \E c \in Conns : HostStartGame(c)
  \/ \E c \in Conns : HostNextQuestion(c)
  \/ \E c \in Conns : HostResetGame(c)
  \/ \E c \in Conns : Disconnect(c)
  \/ Tick

Spec == Init /\ [][Next]_vars

\* ------------------------------------------------- one scoring pass, alone
\* A participant as it stands at the end of the answering phase, after one of
\* the submission histories the handlers allow:
\*   "first"   one submission, the correct option
\*   "changed" a wrong option first, then the correct one
\*   "wrong"   one submission, a wrong option
ScoreProfiles == {"first", "changed", "wrong"}

ScorePlayer(c, profile, time, correctAnswer) ==
  [NewPlayer(c, profile = "host") EXCEPT
     !.currentAnswer = IF profile = "wrong"
                       THEN (correctAnswer + 1) % NumOptions
                       ELSE correctAnswer,
     !.hasChangedAnswer = (profile = "changed"),
     !.answerTime = time]

ScoreFirstAnswer(profile, correctAnswer) ==
  IF profile \in {"first", "host"} THEN correctAnswer
  ELSE (correctAnswer + 1) % NumOptions

\* the answering countdown is at its last second, every participant answered
ScoreInitOf(profiles) ==
  \E n \in 0..NumScorePlayers :
    \E q \in 0..(Len(QUESTIONS) - 1) :
      \E profile \in [1..n -> profiles] :
        \E time \in [1..n -> 1..MaxScoreTime] :
          /\ gameState =
               [state |-> "QUESTION", currentQuestionIndex |-> q,
                players |-> [c \in 1..n |->
                               ScorePlayer(c, profile[c], time[c], QUESTIONS[q + 1])],
                timer |-> 1]
          /\ playerFirstAnswers =
               [c \in 1..n |-> ScoreFirstAnswer(profile[c], QUESTIONS[q + 1])]
          /\ timerInterval = [id |-> 0, cb |-> "toReveal"]
          /\ intervals = {[id |-> 0, cb |-> "toReveal"]}
          /\ clock = MaxScoreTime
          /\ broadcasts = <<>>
          /\ feedback = <<>>
          /\ scoring = <<>>
          /\ cancelled = <<>>
          /\ last = "init"
          /\ submittedEarly = {}
          /\ prevPhase = "QUESTION"
          /\ lobbySinceEndReset = FALSE

ScoreInit == ScoreInitOf(ScoreProfiles)

\* the interval fires for the last time in the answering phase
ScoreTick == gameState.state = "QUESTION" /\ Tick

ScoreNext == ScoreTick

SpecScore == ScoreInit /\ [][ScoreNext]_vars

\* ------------------------------------------- one scoring pass with hosts
\* "host" is a host-flagged connection that submitted the correct option once
\* (submitAnswer does not look at isHost)
HostScoreProfiles == {"first", "host"}

HostScoreInit == ScoreInitOf(HostScoreProfiles)

HostScoreNext == ScoreTick

SpecHostScore == HostScoreInit /\ [][HostScoreNext]_vars

TypeOK ==
  /\ gameState.state \in {"LOBBY", "READING", "QUESTION", "REVEAL",
                          "LEADERBOARD", "FINAL_RESULTS"}
  /\ gameState.currentQuestionIndex \in 0..(Len(QUESTIONS) - 1)
  /\ gameState.timer \in 0..AnsweringDuration
  /\ DOMAIN playerFirstAnswers \subseteq 1..(NumConns + NumScorePlayers)

\* ------------------------- disconnects during the last answering second
\* every participant answered correctly at once; connections then drop while
\* the phase is still QUESTION, and the answering interval completes
LeaveProfiles == {"first"}

LeaveInit == ScoreInitOf(LeaveProfiles)

LeaveDisconnect(c) == gameState.state = "QUESTION" /\ Disconnect(c)

LeaveNext ==
  \/ \E c \in Conns : LeaveDisconnect(c)
  \/ ScoreTick

SpecLeave == LeaveInit /\ [][LeaveNext]_vars

\* ---------------------------- a scoring pass over scores already earned
\* cumulative scores a participant can hold after the first question
AccumScores == {0, 5, 20}

\* the answering countdown of a later question is at its last second; the
\* connections hold scores from the question before
AccumInit ==
  \E n \in 0..NumConns :
    \E q \in 1..(Len(QUESTIONS) - 1) :
      \E profile \in [1..n -> HostScoreProfiles \cup ScoreProfiles] :
        \E prior \in [1..n -> AccumScores] :
          /\ gameState =
               [state |-> "QUESTION", currentQuestionIndex |-> q,
                players |-> [c \in 1..n |->
                               [ScorePlayer(c, profile[c], 1, QUESTIONS[q + 1])
                                  EXCEPT !.score = IF profile[c] = "host"
                                                   THEN 0 ELSE prior[c]]],
                timer |-> 1]
          /\ playerFirstAnswers =
               [c \in 1..n |-> ScoreFirstAnswer(profile[c], QUESTIONS[q + 1])]
          /\ timerInterval = [id |-> 0, cb |-> "toReveal"]
          /\ intervals = {[id |-> 0, cb |-> "toReveal"]}
          /\ clock = 1
          /\ broadcasts = <<>>
          /\ feedback = <<>>
          /\ scoring = <<>>
          /\ cancelled = <<>>
          /\ last = "init"
          /\ submittedEarly = {}
          /\ prevPhase = "QUESTION"
          /\ lobbySinceEndReset = FALSE

\* the interval firing in whatever phase the session is in (hostResetGame
\* leaves it scheduled), and the handlers that write scores
AccumNext ==
  \/ Tick
  \/ \E c \in Conns : Join(c)
  \/ \E c \in Conns : HostStartGame(c)
  \/ \E c \in Conns : HostResetGame(c)

SpecAccum == AccumInit /\ [][AccumNext]_vars

\* --------------------------------------- one cycle without host commands
\* the roles the connections have when the host opens a question
CycleRoles == {"absent", "host", "player"}

\* a record as the previous question left it in LEADERBOARD: untouched, or
\* after one submission of the correct option at time 1, scored 20 points
\* unless host-flagged (calculateScores skips hosts)
CycleRecord(c, isHost, answered, correctAnswer) ==
  IF answered
  THEN [NewPlayer(c, isHost) EXCEPT
          !.score = IF isHost THEN 0 ELSE 20,
          !.lastScoreChange = IF isHost THEN 0 ELSE 20,
          !.currentAnswer = correctAnswer,
          !.answerTime = 1]
  ELSE NewPlayer(c, isHost)

\* the session before the host's command: the lobby of a new session for
\* question 0, the leaderboard of the previous question otherwise. In the
\* leaderboard timerInterval still holds the handle of the reveal interval:
\* the completing tick clears it and never assigns null.
CycleBefore(roles, answered, q) ==
  [gameState |->
     [state |-> IF q = 0 THEN "LOBBY" ELSE "LEADERBOARD",
      currentQuestionIndex |-> IF q = 0 THEN 0 ELSE q - 1,
      players |-> SelectSeq([c \in Conns |->
                               CycleRecord(c, roles[c] = "host",
                                           q > 0 /\ answered[c],
                                           QUESTIONS[IF q = 0 THEN 1 ELSE q])],
                            LAMBDA p : roles[p.id] # "absent"),
      timer |-> 0],
   playerFirstAnswers |->
     [c \in {d \in Conns : q > 0 /\ roles[d] # "absent" /\ answered[d]}
        |-> QUESTIONS[IF q = 0 THEN 1 ELSE q]],
   timerInterval |-> IF q = 0 THEN NoTimer
                     ELSE [id |-> 0, cb |-> "toLeaderboard"],
   intervals |-> {},
   broadcasts |-> <<>>, feedback |-> <<>>, scoring |-> <<>>, cancelled |-> <<>>]

\* READING of question q has just been entered by a host's hostStartGame
\* (q = 0) or hostNextQuestion (q > 0)
CycleInit ==
  \E roles \in [Conns -> CycleRoles] :
    \E answered \in [Conns -> BOOLEAN] :
      \E h \in Conns :
        \E q \in 0..(Len(QUESTIONS) - 1) :
          LET m == IF q = 0
                   THEN hostStartGame(CycleBefore(roles, answered, q), h)
                   ELSE hostNextQuestion(CycleBefore(roles, answered, q), h)
          IN /\ roles[h] = "host"
             /\ gameState = m.gameState
             /\ playerFirstAnswers = m.playerFirstAnswers
             /\ timerInterval = m.timerInterval
             /\ intervals = m.intervals
             /\ clock = 1
             /\ broadcasts = m.broadcasts
             /\ feedback = m.feedback
             /\ scoring = m.scoring
             /\ cancelled = m.cancelled
             /\ last = IF q = 0 THEN "hostStartGame" ELSE "hostNextQuestion"
             /\ submittedEarly = {}
             /\ prevPhase = IF q = 0 THEN "LOBBY" ELSE "LEADERBOARD"
             /\ lobbySinceEndReset = FALSE

\* participants come, answer and go; the interval fires; no host command
CycleNext ==
  \/ \E c \in Conns : Join(c)
  \/ \E c \in Conns : SubmitAnswer(c)
  \/ \E c \in Conns : Disconnect(c)
  \/ Tick

\* setInterval fires its callback every second for as long as it is
\* scheduled: weak fairness of Tick. Tick is enabled exactly when an interval
\* is scheduled (TickEnabledWhenScheduled), so the condition is written with
\* that state predicate in place of ENABLED <<Tick>>_vars.
TickFairness == []<>(intervals = {}) \/ []<><<Tick>>_vars

TickEnabledWhenScheduled == (ENABLED <<Tick>>_vars) <=> (intervals # {})

SpecCycle == CycleInit /\ [][CycleNext]_vars /\ TickFairness

\* ------------------------------------------------------------------ claims
Players == gameState.players
Phase == gameState.state
CorrectNow == QUESTIONS[gameState.currentQuestionIndex + 1]
HostOps == {"hostStartGame", "hostNextQuestion", "hostResetGame"}

\* C1: a hostStartGame, hostNextQuestion or hostResetGame issued by a
\* connection without a Participant record, or whose record is not
\* host-flagged, leaves the session state, the scratch state and the timer
\* unchanged and emits no gameUpdate (and no answerFeedback).
C1_NonHostCommandsIgnored ==
  [][\A c \in Conns :
       (/\ ~IsHostConn(Players, c)
        /\ HostStartGame(c) \/ HostNextQuestion(c) \/ HostResetGame(c))
       => /\ UNCHANGED progVars
          /\ broadcasts' = <<>>
          /\ feedback' = <<>>]_vars

\* a host command was just rejected during the answering phase, with a host
\* and a non-host participant present
C1_Witness ==
  /\ last \in HostOps
  /\ broadcasts = <<>>
  /\ Phase = "QUESTION"
  /\ \E i \in DOMAIN Players : Players[i].isHost
  /\ \E i \in DOMAIN Players : ~Players[i].isHost

\* C2: a host's hostStartGame acts only in LOBBY, hostNextQuestion only in
\* LEADERBOARD, hostResetGame only in LEADERBOARD or FINAL_RESULTS; in any
\* other phase the command leaves the session state unchanged.
C2_HostCommandsPhaseValidated ==
  [][\A c \in Conns :
       /\ (HostStartGame(c) /\ Phase # "LOBBY") => UNCHANGED progVars
       /\ (HostNextQuestion(c) /\ Phase # "LEADERBOARD") => UNCHANGED progVars
       /\ (HostResetGame(c) /\ Phase \notin {"LEADERBOARD", "FINAL_RESULTS"})
            => UNCHANGED progVars]_vars

\* C3: the phase becomes QUESTION only from READING, REVEAL only from
\* QUESTION and LEADERBOARD only from REVEAL, so no countdown of an earlier
\* phase drives a transition after a host command moved the session.
C3_TimerTransitionsFromSourcePhase ==
  [][/\ (Phase # "QUESTION" /\ gameState'.state = "QUESTION") => Phase = "READING"
     /\ (Phase # "REVEAL" /\ gameState'.state = "REVEAL") => Phase = "QUESTION"
     /\ (Phase # "LEADERBOARD" /\ gameState'.state = "LEADERBOARD")
          => Phase = "REVEAL"]_vars

\* C4: once the phase is FINAL_RESULTS it stays FINAL_RESULTS until a
\* hostResetGame moves it to LOBBY.
C4_FinalResultsTerminal ==
  [][Phase = "FINAL_RESULTS"
       => \/ gameState'.state = "FINAL_RESULTS"
          \/ last' = "hostResetGame" /\ gameState'.state = "LOBBY"]_vars

\* C5: calculateScores runs exactly once for each question that enters the
\* answering phase: every invocation happens with the phase still QUESTION
\* and the countdown at 0, and the answering phase is never left without
\* exactly one invocation.
C5_ScoredOncePerQuestion ==
  /\ [](\A k \in DOMAIN scoring :
          scoring[k].state = "QUESTION" /\ scoring[k].timer = 0)
  /\ [][(Phase = "QUESTION" /\ gameState'.state # "QUESTION")
          => Len(scoring') = 1]_vars

\* the phase a completion callback moves the session to
TargetPhase(cb) ==
  CASE cb = "toQuestion" -> "QUESTION"
    [] cb = "toReveal" -> "REVEAL"
    [] cb = "toLeaderboard" -> "LEADERBOARD"

\* C6: at most one interval is scheduled, and it is the one startTimer
\* stored last (every earlier one was cancelled); a scheduled interval has a
\* countdown of at least 1; a tick below the last second only decrements,
\* and the tick that reaches 0 runs the completion once and unschedules the
\* interval.
C6_OneTimer ==
  /\ [](/\ Cardinality(intervals) <= 1
        /\ intervals \subseteq {timerInterval}
        /\ intervals # {} => gameState.timer >= 1)
  /\ [][last' = "tick" =>
          \A h \in intervals :
            IF gameState.timer = 1
            THEN /\ gameState'.state = TargetPhase(h.cb)
                 /\ h \notin intervals'
            ELSE /\ gameState'.state = Phase
                 /\ gameState'.timer = gameState.timer - 1
                 /\ intervals' = intervals]_vars

\* a host command replaced a running countdown: the old interval was
\* cancelled and the new one is the only one scheduled
C6_Witness ==
  /\ last \in HostOps
  /\ cancelled # <<>>
  /\ Phase = "READING"
  /\ gameState.timer = ReadingDuration
  /\ intervals = {timerInterval}

\* the participants that take the tier rule: correct, unchanged, first correct
Qualifies(p) ==
  /\ ~p.isHost
  /\ p.currentAnswer = CorrectNow
  /\ ~p.hasChangedAnswer
  /\ p.id \in DOMAIN playerFirstAnswers
  /\ playerFirstAnswers[p.id] = CorrectNow

Qualifiers == {i \in DOMAIN Players : Qualifies(Players[i])}
TopTier == {i \in Qualifiers : Players[i].lastScoreChange = 20}

\* C7: after a scoring pass exactly min(5, n) of the n qualifying
\* participants hold 20 points, they are the ones with the earliest
\* timestamps, every other qualifying participant holds 10, and nobody else
\* holds 20 or uses up a slot.
C7_TierRule ==
  scoring # <<>> =>
    /\ Cardinality(TopTier) = IF Cardinality(Qualifiers) < 5
                              THEN Cardinality(Qualifiers) ELSE 5
    /\ \A i \in Qualifiers \ TopTier : Players[i].lastScoreChange = 10
    /\ \A i \in TopTier : \A j \in Qualifiers \ TopTier :
         Players[i].answerTime <= Players[j].answerTime
    /\ \A i \in DOMAIN Players \ Qualifiers :
         Players[i].lastScoreChange \in {0, 5}

\* six participants qualified, the one who joined first submitted last and
\* got 10 points
C7_Witness ==
  /\ scoring # <<>>
  /\ Cardinality(Qualifiers) = 6
  /\ Players[1].lastScoreChange = 10
  /\ \E i \in Qualifiers : Players[i].answerTime < Players[1].answerTime

\* the participants that take the changed-answer rule: correct, and flagged
\* as changed (any second submission sets the flag, whatever the first was)
ChangedToCorrect(p) ==
  /\ ~p.isHost
  /\ p.currentAnswer = CorrectNow
  /\ p.hasChangedAnswer

\* C8: a participant who changed from a wrong option to the correct one is
\* awarded 10 points when the change was made with the countdown above 3,
\* and 5 points when it was made with the countdown at 3 or less.
C8_ChangedAnswerPoints ==
  scoring # <<>> =>
    \A i \in DOMAIN Players :
      (/\ ChangedToCorrect(Players[i])
       /\ Players[i].id \in DOMAIN playerFirstAnswers
       /\ playerFirstAnswers[Players[i].id] # CorrectNow) =>
        Players[i].lastScoreChange =
          IF Players[i].id \in submittedEarly THEN 10 ELSE 5

\* C9: whenever calculateScores runs the countdown is 0.
C9_ScoringAtZero ==
  \A k \in DOMAIN scoring : scoring[k].timer = 0

\* a pass ran and applied the changed-answer rule to a participant
C9_Witness ==
  /\ scoring # <<>>
  /\ \E i \in DOMAIN Players :
       /\ ChangedToCorrect(Players[i])
       /\ Players[i].lastScoreChange = 5

\* C10: in a scoring pass a non-host participant whose current answer is not
\* the correct option (no answer included) gets 0 points: the score is
\* unchanged, the last score change is 0 and the feedback carries 0 points.
C10_IncorrectScoresZero ==
  [][scoring' # <<>> =>
       \A i \in DOMAIN Players :
         (~Players[i].isHost /\ Players[i].currentAnswer # CorrectNow) =>
           /\ gameState'.players[i].score = Players[i].score
           /\ gameState'.players[i].lastScoreChange = 0
           /\ \E k \in DOMAIN feedback' :
                /\ feedback'[k].to = Players[i].id
                /\ feedback'[k].points = 0
                /\ ~feedback'[k].correct]_vars

\* a pass just scored a participant who had changed from the correct option
\* to a wrong one
C10_Witness ==
  /\ scoring # <<>>
  /\ \E i \in DOMAIN Players :
       /\ ~Players[i].isHost
       /\ Players[i].currentAnswer \notin {Null, CorrectNow}
       /\ Players[i].hasChangedAnswer
       /\ Players[i].id \in DOMAIN playerFirstAnswers
       /\ playerFirstAnswers[Players[i].id] = CorrectNow
       /\ Players[i].lastScoreChange = 0

\* C11: a submitAnswer from a connection without a Participant record, or
\* processed while the phase is not QUESTION, changes no participant record,
\* nothing of the scratch state, phase, index or countdown, and emits no
\* gameUpdate; so the answers scored by a pass stay as scored afterwards.
C11_SubmitIgnoredOutsideAnswering ==
  [][\A c \in Conns :
       (/\ SubmitAnswer(c)
        /\ ~HasPlayer(Players, c) \/ Phase # "QUESTION")
       => /\ UNCHANGED progVars
          /\ broadcasts' = <<>>
          /\ feedback' = <<>>]_vars

\* a submission was just refused in REVEAL, after a participant was scored
\* on the answer it still holds
C11_Witness ==
  /\ last = "submitAnswer"
  /\ broadcasts = <<>>
  /\ Phase = "REVEAL"
  /\ \E i \in DOMAIN Players :
       /\ ~Players[i].isHost
       /\ Players[i].currentAnswer = CorrectNow
       /\ Players[i].lastScoreChange = 20

\* C12: whenever a handler or a tick changed the session state, it emitted a
\* gameUpdate, and the last snapshot it emitted equals the session state it
\* left behind.
C12_MutationBroadcast ==
  [][gameState' # gameState =>
       /\ broadcasts' # <<>>
       /\ broadcasts'[Len(broadcasts')] = gameState']_vars

\* an intermediate tick of the answering countdown broadcast the new state
C12_Witness ==
  /\ last = "tick"
  /\ Phase = "QUESTION"
  /\ gameState.timer = 7
  /\ broadcasts = <<gameState>>

\* the number of gameUpdate events each step of a cycle emits, with
\* atReveal of them at the QUESTION -> REVEAL completion
CycleBroadcasts(atReveal) ==
  /\ (last' \in {"hostStartGame", "hostNextQuestion"}
        /\ gameState'.state = "READING" /\ broadcasts' # <<>>)
       => Len(broadcasts') = 1
  /\ last' = "tick" =>
       \A h \in intervals :
         Len(broadcasts') =
           IF gameState.timer = 1 /\ h.cb = "toReveal" THEN atReveal ELSE 1

\* C13 as stated: reading start, every intermediate tick, answering start,
\* the reveal transition and the leaderboard transition each emit exactly one
\* gameUpdate.
C13_OneBroadcastPerStep == [][CycleBroadcasts(1)]_vars

\* C13 amended: the same, except that the reveal transition emits two
\* gameUpdate events, the first with the countdown at 0 and the second with
\* the reveal countdown started.
C13_TwoBroadcastsAtReveal ==
  [][/\ CycleBroadcasts(2)
     /\ (last' = "tick" /\ scoring' # <<>>) =>
          /\ broadcasts'[1] = [gameState' EXCEPT !.timer = 0]
          /\ broadcasts'[2] = gameState'
          /\ gameState'.timer = RevealDuration]_vars

\* the answering countdown just completed with two broadcasts
C13_Witness ==
  /\ last = "tick"
  /\ Phase = "REVEAL"
  /\ scoring # <<>>
  /\ Len(broadcasts) = 2
  /\ broadcasts[1].timer = 0
  /\ broadcasts[2].timer = RevealDuration

\* Object.values(gs.players)
PlayersOf(gs) == {gs.players[i] : i \in DOMAIN gs.players}

\* C14: a host's hostStartGame processed in LOBBY leaves every score and
\* last score change at 0, the index at 0, the phase READING and the reading
\* countdown running.
C14_StartFromLobby ==
  [][\A c \in Conns :
       (HostStartGame(c) /\ IsHostConn(Players, c) /\ Phase = "LOBBY") =>
         /\ (\A p \in PlayersOf(gameState') : p.score = 0 /\ p.lastScoreChange = 0)
         /\ gameState'.currentQuestionIndex = 0
         /\ gameState'.state = "READING"
         /\ gameState'.timer = ReadingDuration
         /\ intervals' = {timerInterval'}
         /\ timerInterval'.cb = "toQuestion"]_vars

\* a host just started a game from the lobby, with a player present
C14_Witness ==
  /\ last = "hostStartGame"
  /\ prevPhase = "LOBBY"
  /\ Phase = "READING"
  /\ gameState.timer = ReadingDuration
  /\ \E i \in DOMAIN Players : ~Players[i].isHost

\* C15: a hostStartGame or hostNextQuestion that enters READING cancels the
\* running interval, leaves every participant with no answer, the changed
\* flag false and the last score change 0, empties playerFirstAnswers and
\* starts the reading countdown, whose completion sets the phase to QUESTION.
C15_EnterReading ==
  [][/\ (last' \in {"hostStartGame", "hostNextQuestion"}
           /\ gameState'.state = "READING" /\ broadcasts' # <<>>)
          => /\ \A h \in intervals : \E k \in DOMAIN cancelled' : cancelled'[k] = h
             /\ (\A p \in PlayersOf(gameState') : /\ p.currentAnswer = Null
                                                  /\ ~p.hasChangedAnswer
                                                  /\ p.lastScoreChange = 0)
             /\ playerFirstAnswers' = <<>>
             /\ gameState'.timer = ReadingDuration
             /\ intervals' = {timerInterval'}
             /\ timerInterval'.cb = "toQuestion"
     /\ (last' = "tick" /\ gameState.timer = 1
           /\ \E h \in intervals : h.cb = "toQuestion")
          => gameState'.state = "QUESTION"]_vars

\* the host advanced during the answering phase, after a participant had
\* answered: the answering interval was cancelled and the answers cleared
C15_Witness ==
  /\ last = "hostNextQuestion"
  /\ Phase = "READING"
  /\ \E k \in DOMAIN cancelled : cancelled[k].cb = "toReveal"
  /\ \E i \in DOMAIN Players : Players[i].answerTime # Null
  /\ playerFirstAnswers = <<>>

\* C16: when READING is entered every participant's answerTime is null.
C16_AnswerTimeResetOnReading ==
  (Phase = "READING" /\ last \in {"hostStartGame", "hostNextQuestion"})
    => (\A p \in PlayersOf(gameState) : p.answerTime = Null)

\* C17: a host's hostNextQuestion on the last bank index sets the phase to
\* FINAL_RESULTS, keeps the index and starts no reading countdown; with more
\* questions left it adds exactly 1 to the index and enters READING.
C17_NextQuestion ==
  [][\A c \in Conns :
       (HostNextQuestion(c) /\ IsHostConn(Players, c)) =>
         IF gameState.currentQuestionIndex = Len(QUESTIONS) - 1
         THEN /\ gameState'.state = "FINAL_RESULTS"
              /\ gameState'.currentQuestionIndex = gameState.currentQuestionIndex
              /\ gameState'.timer = gameState.timer
              /\ intervals' = intervals
              /\ cancelled' = <<>>
         ELSE /\ gameState'.state = "READING"
              /\ gameState'.currentQuestionIndex = gameState.currentQuestionIndex + 1
              /\ gameState'.timer = ReadingDuration]_vars

\* the host advanced on the last question, from LEADERBOARD
C17_Witness ==
  /\ last = "hostNextQuestion"
  /\ prevPhase = "LEADERBOARD"
  /\ Phase = "FINAL_RESULTS"
  /\ gameState.currentQuestionIndex = Len(QUESTIONS) - 1
  /\ intervals = {}
  /\ \E i \in DOMAIN Players : Players[i].score > 0
\* C18: a host's hostResetGame processed in FINAL_RESULTS or LEADERBOARD
\* sets the phase to LOBBY, every score and last score delta to 0 and every
\* current answer to null, and the session then stays in LOBBY until a host
\* issues hostStartGame.
C18_ResetToLobby ==
  [][/\ \A c \in Conns :
          (/\ HostResetGame(c)
           /\ IsHostConn(Players, c)
           /\ Phase \in {"LEADERBOARD", "FINAL_RESULTS"})
          => /\ gameState'.state = "LOBBY"
             /\ (\A p \in PlayersOf(gameState') : /\ p.score = 0
                                                  /\ p.lastScoreChange = 0
                                                  /\ p.currentAnswer = Null)
     /\ (lobbySinceEndReset /\ gameState'.state # "LOBBY")
          => last' = "hostStartGame"]_vars

\* C19: the changed-answer flag of a participant becomes true only by a
\* submission of an option different from the first option the participant
\* submitted in the current question.
C19_ChangedFlagMeansAltered ==
  [][\A i \in DOMAIN Players :
       (/\ i \in DOMAIN gameState'.players
        /\ gameState'.players[i].id = Players[i].id
        /\ ~Players[i].hasChangedAnswer
        /\ gameState'.players[i].hasChangedAnswer)
       => /\ Players[i].id \in DOMAIN playerFirstAnswers
          /\ gameState'.players[i].currentAnswer
               # playerFirstAnswers[Players[i].id]]_vars

\* C20: a host-flagged participant always has score 0 and last score delta
\* 0, no answerFeedback of a scoring pass is addressed to a host, and after a
\* scoring pass min(5, n) of the n qualifying non-host participants hold 20
\* points, whatever the hosts submitted.
C20_HostsNotScored ==
  /\ (\A p \in PlayersOf(gameState) : p.isHost => /\ p.score = 0
                                                  /\ p.lastScoreChange = 0)
  /\ \A k \in DOMAIN feedback : ~IsHostConn(Players, feedback[k].to)
  /\ scoring # <<>> =>
       Cardinality(TopTier) = IF Cardinality(Qualifiers) < TierSlots
                              THEN Cardinality(Qualifiers) ELSE TierSlots

\* a host submitted the correct option before five qualifying participants
\* did, and all five got 20 points
C20_Witness ==
  /\ scoring # <<>>
  /\ Cardinality(TopTier) = TierSlots
  /\ \E h \in DOMAIN Players :
       /\ Players[h].isHost
       /\ Players[h].currentAnswer = CorrectNow
       /\ ~Players[h].hasChangedAnswer
       /\ \A i \in TopTier : Players[h].answerTime < Players[i].answerTime

\* C21: a scoring pass emits exactly one answerFeedback per non-host
\* participant present, addressed to that participant, whose points are the
\* points the pass added to that participant's score; nothing else is emitted.
C21_FeedbackPerParticipant ==
  [][scoring' # <<>> =>
       /\ Len(scoring') = 1
       /\ Len(feedback') = Len(NonHosts(Players))
       /\ Len(gameState'.players) = Len(Players)
       /\ \A i \in DOMAIN Players :
            IF Players[i].isHost
            THEN \A k \in DOMAIN feedback' : feedback'[k].to # Players[i].id
            ELSE \E k \in DOMAIN feedback' :
                   /\ feedback'[k].to = Players[i].id
                   /\ feedback'[k].points =
                        gameState'.players[i].score - Players[i].score
                   /\ \A j \in DOMAIN feedback' :
                        feedback'[j].to = Players[i].id => j = k]_vars

\* two non-host participants were scored in one pass with different awards:
\* each got one event, carrying its own points
C21_Witness ==
  /\ scoring # <<>>
  /\ Len(feedback) = 2
  /\ feedback[1].to # feedback[2].to
  /\ feedback[1].points = 20
  /\ feedback[2].points = 0

\* the identifiers of the participant map
PlayerIds(gs) == {gs.players[i].id : i \in DOMAIN gs.players}

\* no two Participant records share an identifier
UniqueIds(gs) ==
  \A i, j \in DOMAIN gs.players : gs.players[i].id = gs.players[j].id => i = j

\* C22: the size of the participant map is the number of joins minus the
\* number of disconnects (every join adds one record, every disconnect
\* removes one), and no two records share an identifier.
C22_SizeIsJoinsMinusDisconnects ==
  /\ []UniqueIds(gameState)
  /\ [][\A c \in Conns :
          /\ Join(c) => Len(gameState'.players) = Len(Players) + 1
          /\ Disconnect(c) => Len(gameState'.players) = Len(Players) - 1]_vars

\* C22, as the code has it: the participant map holds exactly the
\* connections that joined and have not disconnected since. A join adds a
\* record only when the connection has none (otherwise it replaces it), a
\* disconnect removes one only when the connection has one, no other handler
\* changes the set of identifiers, and no two records share an identifier.
C22_SizeIsConnectionsJoined ==
  /\ []UniqueIds(gameState)
  /\ [][/\ \A c \in Conns :
             /\ Join(c) =>
                  /\ PlayerIds(gameState') = PlayerIds(gameState) \cup {c}
                  /\ Len(gameState'.players) =
                       Len(Players) + IF HasPlayer(Players, c) THEN 0 ELSE 1
             /\ Disconnect(c) =>
                  /\ PlayerIds(gameState') = PlayerIds(gameState) \ {c}
                  /\ Len(gameState'.players) =
                       Len(Players) - IF HasPlayer(Players, c) THEN 1 ELSE 0
        /\ last' \notin {"join", "disconnect"} =>
             /\ PlayerIds(gameState') = PlayerIds(gameState)
             /\ Len(gameState'.players) = Len(Players)]_vars

\* a connection joined a second time during the answering phase, after it had
\* answered: its record is new, its first answer is still recorded, and the
\* map holds one record for it
C22_Witness ==
  /\ last = "join"
  /\ Phase = "QUESTION"
  /\ Len(Players) = 2
  /\ \E i \in DOMAIN Players :
       /\ Players[i].id \in DOMAIN playerFirstAnswers
       /\ Players[i].currentAnswer = Null

\* C23: a disconnect during the answering phase deletes the connection's
\* record and scratch entry and broadcasts a snapshot without it, leaving the
\* other records, the phase, the index and the countdown as they were; the
\* following scoring pass addresses feedback only to participants still
\* present and hands the 20-point slots to min(5, n) of the n qualifying
\* participants still present.
C23_DisconnectWhileAnswering ==
  /\ [](scoring # <<>> =>
          /\ \A k \in DOMAIN feedback : feedback[k].to \in PlayerIds(gameState)
          /\ Cardinality(TopTier) = IF Cardinality(Qualifiers) < TierSlots
                                    THEN Cardinality(Qualifiers) ELSE TierSlots)
  /\ [][/\ \A c \in Conns :
             (Disconnect(c) /\ Phase = "QUESTION") =>
               /\ gameState'.players = SelectSeq(Players, LAMBDA p : p.id # c)
               /\ DOMAIN playerFirstAnswers' = DOMAIN playerFirstAnswers \ {c}
               /\ \A k \in DOMAIN playerFirstAnswers' :
                    playerFirstAnswers'[k] = playerFirstAnswers[k]
               /\ gameState'.state = gameState.state
               /\ gameState'.currentQuestionIndex = gameState.currentQuestionIndex
               /\ gameState'.timer = gameState.timer
               /\ broadcasts' = <<gameState'>>
        /\ last' = "tick" =>
             /\ PlayerIds(gameState') = PlayerIds(gameState)
             /\ \A k \in DOMAIN broadcasts' :
                  PlayerIds(broadcasts'[k]) = PlayerIds(gameState)]_vars

\* six participants qualified, the first of them disconnected before the
\* answering countdown ended, and the five that stayed all got 20 points
C23_Witness ==
  /\ scoring # <<>>
  /\ ~HasPlayer(Players, 1)
  /\ PlayerIds(gameState) = 2..6
  /\ Cardinality(TopTier) = TierSlots
  /\ Len(feedback) = TierSlots

\* C24: the countdown is never negative, and it is 0 whenever no interval
\* is scheduled.
C24_CountdownNonNegative ==
  /\ gameState.timer >= 0
  /\ intervals = {} => gameState.timer = 0

\* the reveal countdown has just completed: LEADERBOARD, nothing scheduled,
\* the countdown at 0
C24_Witness ==
  /\ last = "tick"
  /\ prevPhase = "REVEAL"
  /\ Phase = "LEADERBOARD"
  /\ intervals = {}
  /\ gameState.timer = 0

\* C25: the question index is a valid index of the bank in every state, and
\* every scoring pass looked up a question of the bank.
C25_IndexInBank ==
  /\ gameState.currentQuestionIndex \in 0..(Len(QUESTIONS) - 1)
  /\ \A k \in DOMAIN scoring : scoring[k].question \in 0..(Len(QUESTIONS) - 1)

\* the last question of the bank has just been scored
C25_Witness ==
  /\ Phase = "REVEAL"
  /\ scoring # <<>>
  /\ scoring[1].question = Len(QUESTIONS) - 1
  /\ gameState.currentQuestionIndex = Len(QUESTIONS) - 1

\* C26: with the interval firing and no host command arriving, a session in
\* READING eventually reaches LEADERBOARD, whatever joins, submissions and
\* disconnects happen in between.
C26_CycleCompletes == (Phase = "READING") ~> (Phase = "LEADERBOARD")

\* the cycle completed with nobody left in the session
C26_Witness ==
  /\ Phase = "LEADERBOARD"
  /\ last = "tick"
  /\ prevPhase = "REVEAL"
  /\ Players = <<>>

\* C27: a scoring pass adds to every non-host participant's score an award
\* of 0, 5, 10 or 20 points and records it as the last score delta; scores
\* are never negative, and a participant's score decreases only by
\* hostStartGame, hostResetGame or a join, which set it to 0.
C27_ScoreAccumulates ==
  /\ [](\A p \in PlayersOf(gameState) : p.score >= 0)
  /\ [][/\ scoring' # <<>> =>
             /\ Len(gameState'.players) = Len(Players)
             /\ \A i \in DOMAIN Players :
                  ~Players[i].isHost =>
                    /\ gameState'.players[i].lastScoreChange \in {0, 5, 10, 20}
                    /\ gameState'.players[i].score =
                         Players[i].score + gameState'.players[i].lastScoreChange
        /\ \A p \in PlayersOf(gameState) :
             \A r \in PlayersOf(gameState') :
               (r.id = p.id /\ r.score < p.score) =>
                 /\ last' \in {"hostStartGame", "hostResetGame", "join"}
                 /\ r.score = 0]_vars

\* a participant who held 20 points got 20 more
C27_Witness ==
  /\ scoring # <<>>
  /\ \E p \in PlayersOf(gameState) :
       ~p.isHost /\ p.score = 40 /\ p.lastScoreChange = 20

\* the phase that follows p in the cycle, and the countdown it starts with
PhaseAfter(p) ==
  CASE p = "READING" -> [state |-> "QUESTION", timer |-> AnsweringDuration]
    [] p = "QUESTION" -> [state |-> "REVEAL", timer |-> RevealDuration]
    [] p = "REVEAL" -> [state |-> "LEADERBOARD", timer |-> 0]

\* C28: READING is entered with the countdown at 5; while the phase is
\* READING, QUESTION or REVEAL every tick with the countdown above 1 keeps
\* the phase and lowers the countdown by exactly 1, the tick at 1 moves to
\* the next phase with its countdown at 15, 5 (or 0 for LEADERBOARD), and
\* no join, submission or disconnect changes the phase or the countdown:
\* READING lasts exactly 5 ticks, QUESTION 15, REVEAL 5.
C28_PhaseDurations ==
  /\ []((/\ Phase = "READING"
          /\ last \in {"hostStartGame", "hostNextQuestion"}
          /\ broadcasts # <<>>)
         => gameState.timer = ReadingDuration)
  /\ [][/\ (Phase \in {"READING", "QUESTION", "REVEAL"} /\ last' = "tick") =>
             IF gameState.timer > 1
             THEN /\ gameState'.state = Phase
                  /\ gameState'.timer = gameState.timer - 1
             ELSE /\ gameState.timer = 1
                  /\ gameState'.state = PhaseAfter(Phase).state
                  /\ gameState'.timer = PhaseAfter(Phase).timer
        /\ (/\ Phase \in {"READING", "QUESTION", "REVEAL"}
            /\ last' \in {"join", "submitAnswer", "disconnect"}) =>
             /\ gameState'.state = Phase
             /\ gameState'.timer = gameState.timer]_vars

\* the fifteenth answering tick has just moved the session to REVEAL with
\* the countdown at 5
C28_Witness ==
  /\ last = "tick"
  /\ prevPhase = "QUESTION"
  /\ Phase = "REVEAL"
  /\ gameState.timer = RevealDuration
  /\ scoring # <<>>

\* C29: a participant with a current answer and the changed flag false has
\* that answer recorded as their first answer, and no scoring pass takes
\* the final branch (correct, unchanged, first answer not recorded as
\* correct: 10 points with the plain reason).
C29_UnchangedMeansFirstAnswer ==
  /\ \A p \in PlayersOf(gameState) :
       (p.currentAnswer # Null /\ ~p.hasChangedAnswer) =>
         /\ p.id \in DOMAIN playerFirstAnswers
         /\ playerFirstAnswers[p.id] = p.currentAnswer
  /\ \A k \in DOMAIN feedback : feedback[k].reason # "correct"

\* one pass scored a participant who kept a correct first answer and a
\* participant who ended on the correct option with the changed flag set
C29_Witness ==
  /\ scoring # <<>>
  /\ \E k \in DOMAIN feedback : feedback[k].reason = "first5_unchanged"
  /\ \E k \in DOMAIN feedback : feedback[k].reason = "changed_last3"

====
